---- MODULE Spec2Model ----
(***************************************************************************)
(* The resource-collection facades of the client library:                  *)
(*   UserDefinedFunctions (query, readAll, create, upsert) and             *)
(*   Databases (getDatabase, query, create, read).                         *)
(* The dispatch layer (ClientContext / documentClient) and the iterator    *)
(* (QueryIterator) are the environment: the model records every call the   *)
(* facades make to them and lets them settle with any outcome.             *)
(***************************************************************************)
EXTENDS Integers, Sequences, FiniteSets

\* ---------------------------------------------------------------- bounds
\* facade calls (create / upsert / Databases.create) made in one behaviour
MaxCalls == 2
\* objects the synchronous methods (query, readAll, getDatabase, Databases.query,
\* Databases.read) return in one behaviour
MaxReturns == 2
\* invocations of an iterator's fetch function in one behaviour
MaxFetch == 2
\* operations of any kind begun in one behaviour that mixes all of them
MaxOps == 2

\* ---------------------------------------------------------------- values
\* JavaScript's undefined
Undefined == "undefined"

\* values of the body field of a UserDefinedFunctionDefinition: undefined, the
\* empty string (falsy), a string (the script text) or a function object
NoBody == [t |-> "undefined", v |-> ""]
EmptyStr == [t |-> "string", v |-> ""]
StrBody == [t |-> "string", v |-> "function () { return 1 }"]
FnBody == [t |-> "function", v |-> "function () { return 1 }"]

\* the definitions a caller hands to create / upsert
Definitions == {[id |-> "udf1", body |-> FnBody],
                [id |-> Undefined, body |-> EmptyStr],
                [id |-> Undefined, body |-> FnBody],
                [id |-> "udf1", body |-> NoBody]}

\* the definitions a caller hands to Databases.create
DatabaseDefinitions == {[id |-> "db1"], [id |-> Undefined]}

\* RequestOptions / FeedOptions handed in by the caller (optional parameters)
Options == {Undefined, "opts"}

\* the options of the calls whose settling is followed
GivenOptions == {"opts"}

\* SqlQuerySpec values handed to query
Queries == {Undefined, "SELECT * FROM udfs"}

\* the options an iterator hands to its fetch function
InnerOptions == {"opts", "opts+continuation"}

\* ids handed to getDatabase
DatabaseIds == {"db1", "db2"}

\* what the dispatch layer can settle a create / upsert / createDatabase with:
\* a response {result, headers} whose result carries the id the server assigned,
\* or an error
Responses == {[result |-> [id |-> "udf1", rid |-> "r1"], headers |-> "h1"],
              [result |-> [id |-> "srv9", rid |-> "r2"], headers |-> "h2"]}
Errors == {[origin |-> "dispatch", code |-> "Conflict"],
           [origin |-> "dispatch", code |-> "ServiceUnavailable"]}
NoResponse == [result |-> [id |-> Undefined, rid |-> Undefined], headers |-> Undefined]
NoError == [origin |-> Undefined, code |-> Undefined]

\* the parent containers a facade can be constructed on
Containers == {[url |-> <<"dbs", "db1", "colls", "c1">>, database |-> [client |-> "cosmos1"]],
               [url |-> <<"dbs", "db2", "colls", "c2">>, database |-> [client |-> "cosmos2"]]}
ClientContexts == {"ctx1"}

VARIABLES
  udfs,      \* the UserDefinedFunctions facade: its fields
  dbs,       \* the Databases facade: its fields
  heap,      \* the callers' definition objects, by reference
  calls,     \* the invocations of create / upsert / Databases.create
  net,       \* the calls made to the dispatch layer's create / upsert / createDatabase
  returned,  \* what the synchronous methods have returned, in order
  feed       \* the calls made to the dispatch layer's queryFeed

vars == <<udfs, dbs, heap, calls, net, returned, feed>>

\* ---------------------------------------------------------------- helpers
\* JavaScript truthiness of a body value
Truthy(b) == b.t = "function" \/ (b.t = "string" /\ b.v # "")

\* body.toString(): a function yields its source text, a string itself
toString(b) == IF b.t = "function" THEN [t |-> "string", v |-> b.v] ELSE b

\* Helper.isResourceValid: the required fields are present
isResourceValid(d) == d.id # Undefined /\ d.body.t # "undefined"

\* Helper.getPathFromLink: the link followed by the resource type
getPathFromLink(link, type) == Append(link, type)

\* Helper.getIdFromLink: the resource id the link denotes
getIdFromLink(link) == [idOf |-> link]

\* ------------------------------------------------- constructors
\* new UserDefinedFunctions(container, clientContext)
UserDefinedFunctions(container, clientContext) ==
  [container |-> container,
   clientContext |-> clientContext,
   client |-> container.database.client]

\* new Databases(client)
Databases(client) == [client |-> client]

\* new UserDefinedFunction(container, id, clientContext); oid is the identity of
\* the object the new expression allocates
UserDefinedFunction(oid, container, id, clientContext) ==
  [oid |-> oid, container |-> container, id |-> id, clientContext |-> clientContext]

\* new Database(client, id)
Database(client, id) == [client |-> client, id |-> id]

Init ==
  /\ udfs \in {UserDefinedFunctions(c, x) : c \in Containers, x \in ClientContexts}
  /\ dbs = Databases(udfs.client)
  /\ heap = <<>>
  /\ calls = <<>>
  /\ net = <<>>
  /\ returned = <<>>
  /\ feed = <<>>

\* ------------------------------------------------- create / upsert
\* if (body.body) { body.body = body.body.toString(); }
Normalise(d) == IF Truthy(d.body) THEN [d EXCEPT !.body = toString(d.body)] ELSE d

\* the validation left out: nothing is rejected
Rejects_never(d) == FALSE

\* const err = {}; if (!Helper.isResourceValid(body, err)) { throw err; }
Rejects(d) == ~isResourceValid(d)

\* the error object create / upsert make and throw themselves
LocalError == [origin |-> "local", code |-> Undefined]

\* the path and item kind of the stored procedures, copied from their facade
UdfRoute_sprocs(f) == [path |-> getPathFromLink(f.container.url, "sprocs"),
                       type |-> "sprocs",
                       id |-> getIdFromLink(f.container.url)]

\* const path = Helper.getPathFromLink(this.container.url, "udfs");
\* const id = Helper.getIdFromLink(this.container.url);
\* and the item kind "udfs": what create / upsert hand to the dispatch layer
UdfRoute(f) == [path |-> getPathFromLink(f.container.url, "udfs"),
                type |-> "udfs",
                id |-> getIdFromLink(f.container.url)]

\* this.clientContext.create / upsert(body, path, "udfs", id, undefined, options):
\* the call as the dispatch layer receives it, made by facade call c
UdfRequest(f, op, c, o, options) ==
  [op |-> op, by |-> c, body |-> o,
   path |-> UdfRoute(f).path, type |-> UdfRoute(f).type, id |-> UdfRoute(f).id,
   options |-> options,
   state |-> "pending", response |-> NoResponse, error |-> NoError]

\* a facade call that has not settled / has failed carries no response
NoReturn == [settled |-> FALSE]

\* the validation done first: a rejected object is left as it was
Normalised_afterValidation(h, o) ==
  IF Rejects(h[o]) THEN h ELSE [h EXCEPT ![o] = Normalise(h[o])]

\* the heap once create / upsert has run up to its validation: the caller's
\* object o is normalised first, whatever the validation then says
Normalised(h, o) == [h EXCEPT ![o] = Normalise(h[o])]

\* the body of create and of upsert up to the await: h is the heap holding the
\* caller's object o; given records what the object held when it was passed
UdfCall(op, h, o, options) ==
  LET c == Len(calls) + 1
      h2 == Normalised(h, o)
  IN /\ Len(calls) < MaxCalls
     /\ heap' = h2
     /\ IF Rejects(h2[o])
        THEN /\ calls' = Append(calls, [method |-> op, obj |-> o, given |-> h[o],
                                        options |-> options,
                                        pc |-> "rejected", awaits |-> 0, settles |-> 1,
                                        return |-> NoReturn, error |-> LocalError])
             /\ net' = net
        ELSE /\ calls' = Append(calls, [method |-> op, obj |-> o, given |-> h[o],
                                        options |-> options,
                                        pc |-> "awaiting", awaits |-> Len(net) + 1,
                                        settles |-> 0,
                                        return |-> NoReturn, error |-> NoError])
             /\ net' = Append(net, UdfRequest(udfs, op, c, o, options))
     /\ UNCHANGED <<udfs, dbs, returned, feed>>

create(h, o, options) == UdfCall("create", h, o, options)

upsert(h, o, options) == UdfCall("upsert", h, o, options)

\* the child handle built from the id of the request, not of the result
UdfResponse_requestId(f, c, response) ==
  LET ref == UserDefinedFunction(c, f.container, heap[calls[c].obj].id, f.clientContext)
  IN [body |-> response.result, headers |-> response.headers,
      ref |-> ref, userDefinedFunction |-> ref, udf |-> ref]

\* const ref = new UserDefinedFunction(this.container, response.result.id, this.clientContext);
\* return { body: response.result, headers: response.headers, ref, userDefinedFunction: ref, udf: ref };
UdfResponse(f, c, response) ==
  LET ref == UserDefinedFunction(c, f.container, response.result.id, f.clientContext)
  IN [body |-> response.result, headers |-> response.headers,
      ref |-> ref, userDefinedFunction |-> ref, udf |-> ref]

\* the most recent dispatch call of the facade, whoever made it
Awaited_latest(c) == Len(net)

\* the dispatch call that facade call c resumes from
Awaited(c) == calls[c].awaits

\* a dispatch failure caught and thrown again wrapped in an error of the facade
UdfSettled_wrapping(f, c, call, r) ==
  IF r.state = "ok"
  THEN [call EXCEPT !.pc = "resolved", !.settles = @ + 1,
                    !.return = UdfResponse(f, c, r.response)]
  ELSE [call EXCEPT !.pc = "rejected", !.settles = @ + 1,
                    !.error = [origin |-> "facade", code |-> r.error.code]]

\* how create / upsert call c ends once the dispatch call r it awaits has
\* settled: it returns the response built from r, or the await rethrows r's error
UdfSettled(f, c, call, r) ==
  IF r.state = "ok"
  THEN [call EXCEPT !.pc = "resolved", !.settles = @ + 1,
                    !.return = UdfResponse(f, c, r.response)]
  ELSE [call EXCEPT !.pc = "rejected", !.settles = @ + 1, !.error = r.error]

\* a create / upsert that makes its dispatch call again when it has failed
UdfResume_retrying(c) ==
  /\ c \in DOMAIN calls
  /\ calls[c].method \in {"create", "upsert"}
  /\ calls[c].pc = "awaiting"
  /\ Awaited(c) \in DOMAIN net
  /\ net[Awaited(c)].state # "pending"
  /\ IF net[Awaited(c)].state = "err" /\ Cardinality({k \in DOMAIN net : net[k].by = c}) < 2
     THEN /\ net' = Append(net, [net[Awaited(c)] EXCEPT !.state = "pending",
                                                        !.error = NoError])
          /\ calls' = [calls EXCEPT ![c].awaits = Len(net) + 1]
     ELSE /\ net' = net
          /\ calls' = [calls EXCEPT ![c] = UdfSettled(udfs, c, @, net[Awaited(c)])]
  /\ UNCHANGED <<udfs, dbs, heap, returned, feed>>

\* the rest of create / upsert after the await
UdfResume(c) ==
  /\ c \in DOMAIN calls
  /\ calls[c].method \in {"create", "upsert"}
  /\ calls[c].pc = "awaiting"
  /\ Awaited(c) \in DOMAIN net
  /\ net[Awaited(c)].state # "pending"
  /\ calls' = [calls EXCEPT ![c] = UdfSettled(udfs, c, @, net[Awaited(c)])]
  /\ UNCHANGED <<udfs, dbs, heap, net, returned, feed>>

\* ------------------------------------------------- Databases.create
\* return this.client.documentClient.createDatabase(body, options): the call as
\* the dispatch layer receives it; it takes no path, item kind or id
DbRequest(c, o, options) ==
  [op |-> "createDatabase", by |-> c, body |-> o,
   path |-> <<>>, type |-> Undefined, id |-> getIdFromLink(<<>>),
   options |-> options,
   state |-> "pending", response |-> NoResponse, error |-> NoError]

\* Databases.create validating the definition itself, as create / upsert do
Databases_create_validating(d, options) ==
  LET c == Len(calls) + 1
      o == Len(heap) + 1
  IN /\ Len(calls) < MaxCalls
     /\ heap' = Append(heap, d)
     /\ IF d.id = Undefined
        THEN /\ calls' = Append(calls, [method |-> "Databases.create", obj |-> o,
                                        given |-> d, options |-> options,
                                        pc |-> "rejected", awaits |-> 0, settles |-> 1,
                                        return |-> NoReturn, error |-> LocalError])
             /\ net' = net
        ELSE /\ calls' = Append(calls, [method |-> "Databases.create", obj |-> o,
                                        given |-> d, options |-> options,
                                        pc |-> "awaiting", awaits |-> Len(net) + 1,
                                        settles |-> 0,
                                        return |-> NoReturn, error |-> NoError])
             /\ net' = Append(net, DbRequest(c, o, options))
     /\ UNCHANGED <<udfs, dbs, returned, feed>>

\* Databases.create hands the caller's object to createDatabase and returns the
\* promise createDatabase returns; d is the definition the caller has made
Databases_create(d, options) ==
  LET c == Len(calls) + 1
      o == Len(heap) + 1
  IN /\ Len(calls) < MaxCalls
     /\ heap' = Append(heap, d)
     /\ calls' = Append(calls, [method |-> "Databases.create", obj |-> o,
                                given |-> d, options |-> options,
                                pc |-> "awaiting", awaits |-> Len(net) + 1, settles |-> 0,
                                return |-> NoReturn, error |-> NoError])
     /\ net' = Append(net, DbRequest(c, o, options))
     /\ UNCHANGED <<udfs, dbs, returned, feed>>

\* the promise Databases.create returned is the dispatch layer's own: it settles
\* when, and as, the dispatch call settles
DbSettled(call, r) ==
  IF r.state = "ok"
  THEN [call EXCEPT !.pc = "resolved", !.settles = @ + 1, !.return = r.response]
  ELSE [call EXCEPT !.pc = "rejected", !.settles = @ + 1, !.error = r.error]

\* ------------------------------------------------- the dispatch layer
\* dispatch call k settles: it succeeds with a response or fails with an error
Settle(k, r) ==
  /\ k \in DOMAIN net
  /\ net[k].state = "pending"
  /\ net' = [net EXCEPT ![k] = r]
  /\ calls' = IF r.op = "createDatabase"
              THEN [calls EXCEPT ![r.by] = DbSettled(@, r)]
              ELSE calls
  /\ UNCHANGED <<udfs, dbs, heap, returned, feed>>

DispatchOk(k, response) ==
  /\ k \in DOMAIN net
  /\ Settle(k, [net[k] EXCEPT !.state = "ok", !.response = response])

DispatchFail(k, error) ==
  /\ k \in DOMAIN net
  /\ Settle(k, [net[k] EXCEPT !.state = "err", !.error = error])

\* ------------------------------------------------- query / readAll
\* innerOptions => this.clientContext.queryFeed(path, "udfs", id,
\*   result => result.UserDefinedFunctions, query, innerOptions):
\* the function closes over path, id, query and the dispatch object
FetchFunction(f, q) ==
  [clientContext |-> f.clientContext,
   path |-> getPathFromLink(f.container.url, "udfs"),
   type |-> "udfs",
   id |-> getIdFromLink(f.container.url),
   selector |-> "UserDefinedFunctions",
   query |-> q]

\* new QueryIterator(clientContext, query, options, fetchFunctions)
QueryIterator(clientContext, q, options, fetchFunction) ==
  [clientContext |-> clientContext, query |-> q, options |-> options,
   fetchFunction |-> fetchFunction]

\* what query(q, options) returns
QueryReturn(f, q, options) ==
  QueryIterator(f.clientContext, q, options, FetchFunction(f, q))

\* what readAll(options) returns: return this.query(undefined, options)
ReadAllReturn(f, options) == QueryReturn(f, Undefined, options)

\* the call of queryFeed the fetch function fn makes when iterator i invokes it
\* with innerOptions
QueryFeed(i, fn, innerOptions) ==
  [op |-> "queryFeed", by |-> i, via |-> fn.clientContext,
   path |-> fn.path, type |-> fn.type, id |-> fn.id, selector |-> fn.selector,
   query |-> fn.query, options |-> innerOptions]

\* query fetching the first page itself, before it returns the iterator
QueryCalls_eager(f, q, options) == <<QueryFeed(0, FetchFunction(f, q), options)>>

\* the calls of queryFeed that query itself makes while it builds the iterator
QueryCalls(f, q, options) == <<>>

\* a synchronous method returns object out to its caller, having made the
\* dispatch calls sent; via, q and given record the call that was made, fetches
\* the options each later invocation of its fetch function is handed
Returned(via, q, given, out, sent) ==
  /\ Len(returned) < MaxReturns
  /\ returned' = Append(returned, [via |-> via, query |-> q, given |-> given,
                                   out |-> out, fetches |-> <<>>])
  /\ feed' = feed \o sent
  /\ UNCHANGED <<udfs, dbs, heap, calls, net>>

query(q, options) ==
  Returned("query", q, options, QueryReturn(udfs, q, options),
           QueryCalls(udfs, q, options))

readAll(options) ==
  Returned("readAll", Undefined, options, ReadAllReturn(udfs, options),
           QueryCalls(udfs, Undefined, options))

\* the calls of queryFeed one invocation of the fetch function makes
FetchCalls(i, fn, innerOptions) == <<QueryFeed(i, fn, innerOptions)>>

\* the iterators among the returned objects
Iterators == {i \in DOMAIN returned : returned[i].via \in {"query", "readAll"}}

\* iterator i invokes its fetch function
Fetch(i, innerOptions) ==
  /\ i \in Iterators
  /\ Len(feed) < MaxFetch
  /\ returned' = [returned EXCEPT ![i].fetches = Append(@, innerOptions)]
  /\ feed' = feed \o FetchCalls(i, returned[i].out.fetchFunction, innerOptions)
  /\ UNCHANGED <<udfs, dbs, heap, calls, net>>

\* ------------------------------------------------- Databases
\* getDatabase keeping the handle it made in the facade's client field
getDatabase_retaining(id) ==
  /\ Len(returned) < MaxReturns
  /\ returned' = Append(returned, [via |-> "getDatabase", query |-> Undefined,
                                   given |-> id, out |-> Database(dbs.client, id),
                                   fetches |-> <<>>])
  /\ dbs' = [dbs EXCEPT !.client = id]
  /\ UNCHANGED <<udfs, heap, calls, net, feed>>

\* return new Database(this.client, id)
getDatabase(id) ==
  Returned("getDatabase", Undefined, id, Database(dbs.client, id), <<>>)

\* return this.client.documentClient.queryDatabases(query, options): the
\* iterator the dispatch layer makes for these arguments
Databases_query(q, options) ==
  Returned("Databases.query", q, options,
           [documentClient |-> dbs.client, op |-> "queryDatabases",
            query |-> q, options |-> options], <<>>)

\* return this.client.documentClient.readDatabases(options)
Databases_read(options) ==
  Returned("Databases.read", Undefined, options,
           [documentClient |-> dbs.client, op |-> "readDatabases",
            query |-> Undefined, options |-> options], <<>>)

\* ------------------------------------------------- specifications
\* the UserDefinedFunctionDefinition objects the callers hold
UdfObjects == {o \in DOMAIN heap : "body" \in DOMAIN heap[o]}

\* a caller begins create, upsert or Databases.create with options of O; it
\* passes a definition object it has just made, or one it made before
Begin(O) ==
  \/ \E d \in Definitions, options \in O :
        create(Append(heap, d), Len(heap) + 1, options)
  \/ \E o \in UdfObjects, options \in O : create(heap, o, options)
  \/ \E d \in Definitions, options \in O :
        upsert(Append(heap, d), Len(heap) + 1, options)
  \/ \E o \in UdfObjects, options \in O : upsert(heap, o, options)
  \/ \E d \in DatabaseDefinitions, options \in O : Databases_create(d, options)

\* the calls are begun with options where what follows the dispatch call is
\* followed, and with or without them where it is not
NextCall == Begin(GivenOptions)

\* a dispatch call settles, or a suspended create / upsert resumes
NextSettle ==
  \/ \E c \in DOMAIN calls : UdfResume(c)
  \/ \E k \in DOMAIN net, response \in Responses : DispatchOk(k, response)
  \/ \E k \in DOMAIN net, error \in Errors : DispatchFail(k, error)

\* a caller calls a synchronous method, or an iterator fetches
NextFeed ==
  \/ \E q \in Queries, options \in Options : query(q, options)
  \/ \E options \in Options : readAll(options)
  \/ \E i \in DOMAIN returned, innerOptions \in InnerOptions : Fetch(i, innerOptions)
  \/ \E id \in DatabaseIds : getDatabase(id)
  \/ \E q \in Queries, options \in Options : Databases_query(q, options)
  \/ \E options \in Options : Databases_read(options)

\* create, upsert and Databases.create, any number of them in flight
Next == NextCall \/ NextSettle

Spec == Init /\ [][Next]_vars

\* a resumable create / upsert is resumed: the job queue runs every continuation
\* whose promise has settled
FairSpec == Spec /\ \A c \in 1..MaxCalls : WF_vars(UdfResume(c))

\* the synchronous methods and the iterators
SpecFeed == Init /\ [][NextFeed]_vars

\* every call a UserDefinedFunctions facade makes to the dispatch layer: create
\* and upsert up to their await, query, readAll and the iterators' fetches
CallsBegun == Len(calls) + Len(returned)

NextRequests ==
  \/ CallsBegun < MaxOps /\ Begin(Options)
  \/ \E q \in Queries, options \in Options : CallsBegun < MaxOps /\ query(q, options)
  \/ \E options \in Options : CallsBegun < MaxOps /\ readAll(options)
  \/ \E i \in DOMAIN returned, innerOptions \in InnerOptions : Fetch(i, innerOptions)

SpecRequests == Init /\ [][NextRequests]_vars

\* every operation of both facades, at most MaxOps of them begun
OpsBegun == Len(calls) + Len(returned) + Len(feed)

NextAll ==
  \/ OpsBegun < MaxOps /\ NextCall
  \/ OpsBegun < MaxOps /\ NextFeed
  \/ NextSettle

SpecAll == Init /\ [][NextAll]_vars

\* ================================================= properties
UdfCalls == {c \in DOMAIN calls : calls[c].method \in {"create", "upsert"}}

DbCalls == {c \in DOMAIN calls : calls[c].method = "Databases.create"}

\* the dispatch calls facade call c has made
Sent(c) == {k \in DOMAIN net : net[k].by = c}

\* a UserDefinedFunctionDefinition whose id or whose body is missing
MissingField(d) == d.id = Undefined \/ d.body = NoBody

\* C1: create and upsert reject a definition whose id or body is missing with an
\* error they raise themselves, and make no dispatch call for it.
C1_InvalidRejectedLocally ==
  \A c \in UdfCalls :
    MissingField(calls[c].given) =>
      /\ calls[c].pc = "rejected"
      /\ calls[c].error = LocalError
      /\ calls[c].return = NoReturn
      /\ Sent(c) = {}

C1_Witness ==
  /\ \E c \in UdfCalls : calls[c].method = "create" /\ calls[c].given.id = Undefined
                          /\ calls[c].pc = "rejected"
  /\ \E c \in UdfCalls : calls[c].method = "upsert" /\ calls[c].given.body = NoBody
                          /\ calls[c].pc = "rejected"

\* C2: a create / upsert whose dispatch call succeeded returns the dispatch
\* result as body, the dispatch headers as headers, and in ref,
\* userDefinedFunction and udf one and the same handle, made from the facade's
\* container, the id of the dispatch result and the facade's dispatch object.
C2_ResponseFromDispatchResult ==
  /\ \A c \in UdfCalls :
    calls[c].pc = "resolved" =>
      /\ Cardinality(Sent(c)) = 1
      /\ \A k \in Sent(c) :
           /\ net[k].state = "ok"
           /\ calls[c].return.body = net[k].response.result
           /\ calls[c].return.headers = net[k].response.headers
           /\ calls[c].return.userDefinedFunction = calls[c].return.ref
           /\ calls[c].return.udf = calls[c].return.ref
           /\ calls[c].return.ref.container = udfs.container
           /\ calls[c].return.ref.id = net[k].response.result.id
           /\ calls[c].return.ref.clientContext = udfs.clientContext
  /\ \A c \in UdfCalls : \A k \in Sent(c) :
       net[k].state = "ok" => calls[c].pc \in {"awaiting", "resolved"}

\* a resolved create and a resolved upsert, one of them given an id by the
\* server that is not the id of the request
C2_Witness ==
  /\ \E c \in UdfCalls : calls[c].method = "create" /\ calls[c].pc = "resolved"
                          /\ calls[c].return.ref.id # heap[calls[c].obj].id
  /\ \E c \in UdfCalls : calls[c].method = "upsert" /\ calls[c].pc = "resolved"

\* C3: when the dispatch call of create, upsert or Databases.create fails, the
\* facade call fails with that very error and produces no response or handle.
C3_DispatchErrorUnchanged ==
  \A c \in DOMAIN calls : \A k \in Sent(c) :
    net[k].state = "err" =>
      /\ calls[c].pc # "resolved"
      /\ calls[c].return = NoReturn
      /\ calls[c].pc = "rejected" => calls[c].error = net[k].error
      /\ c \in DbCalls => calls[c].pc = "rejected"

C3_Witness ==
  /\ \E c \in UdfCalls : calls[c].pc = "rejected" /\ calls[c].error \in Errors
  /\ \E c \in DbCalls : calls[c].pc = "rejected" /\ calls[c].error \in Errors

\* the definition facade call c was given passes the validation of create / upsert
PassesValidation(c) == isResourceValid(Normalise(calls[c].given))

\* what holds of every facade call whatever it is a call of: at most one
\* dispatch call, and settled at most once, as resolved or as failed
SingleShot(c) ==
  /\ Cardinality(Sent(c)) <= 1
  /\ calls[c].settles <= 1
  /\ calls[c].settles = 1 <=> calls[c].pc \in {"resolved", "rejected"}
  /\ calls[c].pc = "resolved" => calls[c].error = NoError /\ calls[c].return # NoReturn
  /\ calls[c].pc = "rejected" => calls[c].error # NoError /\ calls[c].return = NoReturn
  /\ calls[c].pc = "awaiting" => calls[c].error = NoError /\ calls[c].return = NoReturn

\* C4 as stated: every create, upsert and Databases.create makes exactly one
\* dispatch call when its definition is valid and none when it is not, and
\* settles at most once.
C4_Original ==
  \A c \in DOMAIN calls :
    /\ SingleShot(c)
    /\ c \in UdfCalls => (Cardinality(Sent(c)) = 1 <=> PassesValidation(c))
    /\ c \in DbCalls => (Cardinality(Sent(c)) = 1 <=> calls[c].given.id # Undefined)

C4_DispatchedOnce ==
  \A c \in DOMAIN calls :
    /\ SingleShot(c)
    /\ c \in UdfCalls => (Cardinality(Sent(c)) = 1 <=> PassesValidation(c))
    /\ c \in DbCalls => Cardinality(Sent(c)) = 1

C4_SettledForGood ==
  [][\A c \in DOMAIN calls : calls[c].pc # "awaiting" => calls'[c] = calls[c]]_vars

C4_EventuallySettles ==
  \A c \in 1..MaxCalls :
    (c \in DOMAIN calls /\ \E k \in Sent(c) : net[k].state # "pending")
      ~> (c \in DOMAIN calls /\ calls[c].pc # "awaiting")

\* C4, amended: every create, upsert and Databases.create makes at most one
\* dispatch call (create / upsert exactly one for a valid definition and none
\* for an invalid one, Databases.create exactly one for every definition),
\* never makes it again, settles at most once and stays as it settled, and
\* settles once its dispatch call has settled.
C4_SingleShot == []C4_DispatchedOnce /\ C4_SettledForGood /\ C4_EventuallySettles

\* a Databases.create of a definition without id has made its one dispatch call
\* and settled, beside a create / upsert that has settled after a failed
\* dispatch call
C4_Witness ==
  /\ \E c \in DbCalls : calls[c].given.id = Undefined /\ Cardinality(Sent(c)) = 1
                         /\ calls[c].settles = 1
  /\ \E c \in UdfCalls : calls[c].pc = "rejected" /\ Cardinality(Sent(c)) = 1

\* the routing triple of the facade's container
RouteOf(url) == [path |-> getPathFromLink(url, "udfs"), type |-> "udfs",
                 id |-> getIdFromLink(url)]

\* C5: every dispatch call of the UserDefinedFunctions facade (by create, by
\* upsert, by a fetch function of query / readAll) carries the path of the
\* container followed by "udfs", the item kind "udfs" and the id of the
\* container's url, whatever the body, query and options are.
C5_SameRoute ==
  /\ \A k \in DOMAIN net :
       net[k].op \in {"create", "upsert"} =>
         [path |-> net[k].path, type |-> net[k].type, id |-> net[k].id]
           = RouteOf(udfs.container.url)
  /\ \A k \in DOMAIN feed :
       [path |-> feed[k].path, type |-> feed[k].type, id |-> feed[k].id]
         = RouteOf(udfs.container.url)

\* a create / upsert and a fetch with a query and options have both reached the
\* dispatch layer
C5_Witness ==
  /\ \E k \in DOMAIN net : net[k].op \in {"create", "upsert"} /\ net[k].options # Undefined
  /\ \E k \in DOMAIN feed : feed[k].query # Undefined

\* C6 as stated: Databases.create makes no dispatch call for a definition
\* without id and fails with an error it raises itself.
C6_Original ==
  \A c \in DbCalls :
    calls[c].given.id = Undefined =>
      /\ Sent(c) = {}
      /\ calls[c].pc = "rejected"
      /\ calls[c].error = LocalError

\* C6, amended: Databases.create validates nothing itself: for every
\* definition, also one without id, it calls createDatabase once with the
\* caller's object and options, leaves the object as it is, and settles as and
\* when createDatabase does, never with an error of its own.
C6_DelegatesUnvalidated ==
  \A c \in DbCalls :
    /\ Cardinality(Sent(c)) = 1
    /\ heap[calls[c].obj] = calls[c].given
    /\ calls[c].error # LocalError
    /\ \A k \in Sent(c) :
         /\ net[k].op = "createDatabase"
         /\ net[k].body = calls[c].obj
         /\ net[k].options = calls[c].options
         /\ net[k].state = "pending" => calls[c].pc = "awaiting"
         /\ net[k].state = "ok" =>
              calls[c].pc = "resolved" /\ calls[c].return = net[k].response
         /\ net[k].state = "err" =>
              calls[c].pc = "rejected" /\ calls[c].error = net[k].error

C6_Witness ==
  \E c \in DbCalls : /\ calls[c].given.id = Undefined
                      /\ \E k \in Sent(c) : net[k].state = "err"
                      /\ calls[c].pc = "rejected"

\* what the dispatch layer answered facade call c
Answer(c) ==
  IF Sent(c) = {} THEN [state |-> "none", response |-> NoResponse, error |-> NoError]
  ELSE LET k == CHOOSE k \in Sent(c) : TRUE
       IN [state |-> net[k].state, response |-> net[k].response, error |-> net[k].error]

\* what facade call c asked of the dispatch layer, but for who asked and the
\* reference of the object handed over
Asked(c) ==
  {[op |-> net[k].op, path |-> net[k].path, type |-> net[k].type, id |-> net[k].id,
    options |-> net[k].options] : k \in Sent(c)}

\* how facade call c stands, but for the identity of the handle it made
Outcome(c) ==
  [pc |-> calls[c].pc, error |-> calls[c].error,
   return |-> IF c \in UdfCalls /\ calls[c].pc = "resolved"
              THEN [body |-> calls[c].return.body, headers |-> calls[c].return.headers,
                    container |-> calls[c].return.ref.container,
                    id |-> calls[c].return.ref.id,
                    clientContext |-> calls[c].return.ref.clientContext]
              ELSE calls[c].return,
   asked |-> Asked(c),
   left |-> heap[calls[c].obj]]

C7_FieldsKept == [][udfs' = udfs /\ dbs' = dbs]_vars

C7_HistoryFree ==
  /\ \A c1, c2 \in DOMAIN calls :
       ( /\ calls[c1].method = calls[c2].method
         /\ calls[c1].given = calls[c2].given
         /\ calls[c1].options = calls[c2].options
         /\ Answer(c1) = Answer(c2)
         /\ calls[c1].pc # "awaiting"
         /\ calls[c2].pc # "awaiting" )
       => Outcome(c1) = Outcome(c2)
  /\ \A i, j \in DOMAIN returned :
       ( /\ returned[i].via = returned[j].via
         /\ returned[i].query = returned[j].query
         /\ returned[i].given = returned[j].given )
       => returned[i].out = returned[j].out

\* C7: no operation of either facade (query, readAll, create, upsert,
\* getDatabase, Databases.query, Databases.create, Databases.read), however it
\* ends, changes a field of a facade, and a call that has settled has ended as
\* any other settled call with the same arguments and the same answer of the
\* dispatch layer.
C7_NoRetainedState == C7_FieldsKept /\ []C7_HistoryFree

\* the second call of a facade repeats its first call and both have settled
C7_Witness ==
  /\ Len(calls) = 2
  /\ calls[1].method = calls[2].method
  /\ calls[1].given = calls[2].given
  /\ calls[1].options = calls[2].options
  /\ Answer(1) = Answer(2)
  /\ calls[1].pc = "resolved"
  /\ calls[2].pc = "resolved"

\* C8: create and upsert overwrite a truthy body of the caller's object with its
\* string form before they validate, hence also when they then reject the
\* object; they leave an absent or falsy body, and the id, as they are; and
\* they hand the caller's object itself to the dispatch layer.
C8_NormalisedInPlace ==
  \A c \in UdfCalls :
    LET g == calls[c].given
        now == heap[calls[c].obj]
    IN /\ g.body \in {FnBody, StrBody} => now.body = StrBody
       /\ g.body \in {NoBody, EmptyStr} => now.body = g.body
       /\ now.id = g.id
       /\ DOMAIN now = DOMAIN g
       /\ \A k \in Sent(c) : net[k].body = calls[c].obj

\* a rejected call has rewritten the function it was given, and a call on an
\* object with a falsy body has left it alone
C8_Witness ==
  /\ \E c \in UdfCalls : /\ calls[c].given.body = FnBody
                          /\ heap[calls[c].obj].body = StrBody
                          /\ calls[c].pc = "rejected"
                          /\ Sent(c) = {}
  /\ \E c \in UdfCalls : /\ calls[c].given.body = EmptyStr
                          /\ heap[calls[c].obj].body = EmptyStr

C9_OwnResult ==
  \A c \in UdfCalls :
    /\ calls[c].pc = "resolved" =>
         \E k \in Sent(c) : /\ net[k].state = "ok"
                             /\ calls[c].return.body = net[k].response.result
                             /\ calls[c].return.headers = net[k].response.headers
                             /\ calls[c].return.ref.id = net[k].response.result.id
    /\ (calls[c].pc = "rejected" /\ calls[c].error # LocalError) =>
         \E k \in Sent(c) : net[k].state = "err" /\ calls[c].error = net[k].error

C9_OthersUntouched ==
  [][\A c \in DOMAIN calls :
       calls'[c] # calls[c] => \E k \in Sent(c) : net'[k].state # "pending"]_vars

\* C9: with several create / upsert calls in flight, settled by the dispatch
\* layer in any order, each call ends with the result or the error of its own
\* dispatch call, and a call changes only once its own dispatch call has
\* settled.
C9_NoInterference == []C9_OwnResult /\ C9_OthersUntouched

\* the later of two calls has resolved while the earlier one, whose dispatch
\* call has failed, is still suspended
C9_Witness ==
  \E c1, c2 \in UdfCalls :
    /\ c1 < c2
    /\ calls[c1].pc = "awaiting"
    /\ \E k \in Sent(c1) : net[k].state = "err"
    /\ calls[c2].pc = "resolved"

\* the calls of queryFeed made for iterator i, in order
FeedOf(i) == SelectSeq(feed, LAMBDA e : e.by = i)

\* C10: query and readAll make no dispatch call and reject nothing, they return
\* an iterator; queryFeed is called once for each invocation of the iterator's
\* fetch function, with the query given to query (undefined for readAll) and
\* the options the iterator hands over; readAll(options) returns what
\* query(undefined, options) returns.
C10_LazyQuery ==
  /\ \A k \in DOMAIN feed : feed[k].by \in Iterators
  /\ \A i \in Iterators :
       /\ Len(FeedOf(i)) = Len(returned[i].fetches)
       /\ \A n \in 1..Len(FeedOf(i)) :
            /\ FeedOf(i)[n].op = "queryFeed"
            /\ FeedOf(i)[n].query = returned[i].query
            /\ FeedOf(i)[n].options = returned[i].fetches[n]
       /\ returned[i].out.query = returned[i].query
       /\ returned[i].out.options = returned[i].given
       /\ returned[i].via = "readAll" =>
            /\ returned[i].query = Undefined
            /\ returned[i].out = QueryReturn(udfs, Undefined, returned[i].given)
  /\ Len(returned) < MaxReturns =>
       /\ \A q \in Queries, options \in Options : ENABLED query(q, options)
       /\ \A options \in Options : ENABLED readAll(options)

\* an iterator of query has fetched twice with different options, beside an
\* iterator of readAll
C10_Witness ==
  /\ \E i \in Iterators : /\ returned[i].via = "query"
                           /\ returned[i].query # Undefined
                           /\ Len(returned[i].fetches) = 2
                           /\ returned[i].fetches[1] # returned[i].fetches[2]
  /\ \E i \in Iterators : returned[i].via = "readAll"

====
